---- MODULE Spec2Model ----
(***************************************************************************)
(* A model of the multi-value register (MVReg) of rust-crdt, src/mvreg.rs. *)
(* A register is the vector `vals` of (clock, value) pairs.  The version   *)
(* vector and the read/add contexts live in vclock.rs and ctx.rs; their    *)
(* operations are modelled here from their description.                    *)
(***************************************************************************)
EXTENDS Integers, Sequences, FiniteSets, TLC

(* ---------------------------------------------------------------------- *)
(* Bounds                                                                 *)
(* ---------------------------------------------------------------------- *)
NumActors == 3
NumReplicas == 2
MaxOps == 4
MaxWrites == 3
MaxForgets == 2
MaxId == 2
MaxInserts == 2

Actors == 1..NumActors
Vals == {23, 82}
Written == 23
Replicas == 1..NumReplicas
TestRegs == {"r1", "r2", "r3"}
LSeqs == {"s1", "s2"}

(* ---------------------------------------------------------------------- *)
(* VClock: actor -> counter, an absent actor reads as 0                   *)
(* ---------------------------------------------------------------------- *)
VNew == [a \in Actors |-> 0]

VIsEmpty(c) == \A a \in Actors : c[a] = 0

VLeq(c, d) == \A a \in Actors : c[a] <= d[a]

VLt(c, d) == VLeq(c, d) /\ c # d

VGt(c, d) == VLt(d, c)

VConcurrent(c, d) == ~VLeq(c, d) /\ ~VLeq(d, c)

VMerge(c, d) == [a \in Actors |-> IF c[a] >= d[a] THEN c[a] ELSE d[a]]

VSubtract(c, d) == [a \in Actors |-> IF c[a] <= d[a] THEN 0 ELSE c[a]]

VInc(c, a) == [c EXCEPT ![a] = c[a] + 1]

(* ---------------------------------------------------------------------- *)
(* MVReg                                                                  *)
(* ---------------------------------------------------------------------- *)
New == << >>

Entry(c, v) == [clock |-> c, val |-> v]

Put(c, v) == [clock |-> c, val |-> v]

RECURSIVE ClockFold(_, _, _)
ClockFold(vals, i, accum) ==
    IF i > Len(vals) THEN accum
    ELSE ClockFold(vals, i + 1, VMerge(accum, vals[i].clock))

\* a clock that is the last entry's clock, not the join of all of them
ClockOfLast(vals) == IF vals = << >> THEN VNew ELSE vals[Len(vals)].clock

Clock(vals) == ClockFold(vals, 1, VNew)

\* a read that returns the value of the last entry only
ReadLast(vals) ==
    [val       |-> IF vals = << >> THEN << >> ELSE <<vals[Len(vals)].val>>,
     add_clock |-> Clock(vals),
     rm_clock  |-> Clock(vals)]

Read(vals) ==
    [val       |-> [i \in 1..Len(vals) |-> vals[i].val],
     add_clock |-> Clock(vals),
     rm_clock  |-> Clock(vals)]

DeriveAddCtx(ctx, actor) == [clock |-> VInc(ctx.add_clock, actor), actor |-> actor]

Set(val, ctx) == Put(ctx.clock, val)

\* a retain that keeps an entry whose clock equals the op's clock
RetainStrict(vals, clock) == SelectSeq(vals, LAMBDA e : ~VLt(e.clock, clock))

Retain(vals, clock) == SelectSeq(vals, LAMBDA e : ~VLeq(e.clock, clock))

\* an apply that pushes the op even when a stored entry dominates it
ApplyAlwaysAdd(vals, op) ==
    IF VIsEmpty(op.clock) THEN vals
    ELSE Append(Retain(vals, op.clock), Entry(op.clock, op.val))

\* an apply that does not filter out the entries the op dominates
ApplyKeepDominated(vals, op) ==
    IF VIsEmpty(op.clock) THEN vals
    ELSE IF \E i \in 1..Len(vals) : VGt(vals[i].clock, op.clock) THEN vals
    ELSE Append(vals, Entry(op.clock, op.val))

\* an apply that does not return early on an empty clock
ApplyNoEmptyCheck(vals, op) ==
    LET kept == Retain(vals, op.clock)
        should_add == ~\E i \in 1..Len(kept) : VGt(kept[i].clock, op.clock)
    IN  IF should_add THEN Append(kept, Entry(op.clock, op.val)) ELSE kept

\* an apply that looks for a dominating entry in the last place only
ApplyCheckLast(vals, op) ==
    IF VIsEmpty(op.clock) THEN vals
    ELSE LET kept == Retain(vals, op.clock)
             should_add == kept = << >> \/ ~VGt(kept[Len(kept)].clock, op.clock)
         IN  IF should_add THEN Append(kept, Entry(op.clock, op.val)) ELSE kept

Apply(vals, op) ==
    IF VIsEmpty(op.clock) THEN vals
    ELSE LET kept == Retain(vals, op.clock)
             should_add == ~\E i \in 1..Len(kept) : VGt(kept[i].clock, op.clock)
         IN  IF should_add THEN Append(kept, Entry(op.clock, op.val)) ELSE kept

RECURSIVE ApplyAll(_, _)
ApplyAll(vals, ops) ==
    IF ops = << >> THEN vals
    ELSE ApplyAll(Apply(vals, Head(ops)), Tail(ops))

NotDominated(e, others) == ~\E i \in 1..Len(others) : VLt(e.clock, others[i].clock)

\* a second loop of merge that does not look for a dominating entry of self
RECURSIVE MergeOtherUnchecked(_, _, _, _)
MergeOtherUnchecked(self, other, i, vals) ==
    IF i > Len(other) THEN vals
    ELSE LET e == other[i]
             is_new == ~\E k \in 1..Len(vals) : vals[k].clock = e.clock
         IN  MergeOtherUnchecked(self, other, i + 1,
                 IF is_new THEN Append(vals, e) ELSE vals)

\* a second loop of merge that takes an entry for known when its value is
RECURSIVE MergeOtherByVal(_, _, _, _)
MergeOtherByVal(self, other, i, vals) ==
    IF i > Len(other) THEN vals
    ELSE LET e == other[i]
             is_new == ~\E k \in 1..Len(vals) : vals[k].val = e.val
         IN  MergeOtherByVal(self, other, i + 1,
                 IF NotDominated(e, self) /\ is_new THEN Append(vals, e) ELSE vals)

RECURSIVE MergeOther(_, _, _, _)
MergeOther(self, other, i, vals) ==
    IF i > Len(other) THEN vals
    ELSE LET e == other[i]
             is_new == ~\E k \in 1..Len(vals) : vals[k].clock = e.clock
         IN  MergeOther(self, other, i + 1,
                 IF NotDominated(e, self) /\ is_new THEN Append(vals, e) ELSE vals)

\* a first loop of merge that keeps the dominated entries of self
MergeSelfAll(self, other) == self

MergeSelf(self, other) == SelectSeq(self, LAMBDA e : NotDominated(e, other))

\* a merge that keeps every entry of self
MergeKeepSelf(self, other) == MergeOther(self, other, 1, self)

\* a merge that takes the state of other
MergeTakeOther(self, other) == other

Merge(self, other) == MergeOther(self, other, 1, MergeSelf(self, other))

\* a truncate that keeps the entries whose clock has become empty
TruncateNoDrop(vals, clock) ==
    [i \in 1..Len(vals) |-> Entry(VSubtract(vals[i].clock, clock), vals[i].val)]

\* a truncate that drops every entry whose clock the subtraction changes
TruncateTouched(vals, clock) ==
    SelectSeq(vals, LAMBDA e : VSubtract(e.clock, clock) = e.clock)

Truncate(vals, clock) ==
    LET subtracted == [i \in 1..Len(vals) |->
                          Entry(VSubtract(vals[i].clock, clock), vals[i].val)]
    IN  SelectSeq(subtracted, LAMBDA e : ~VIsEmpty(e.clock))

NumFound(vals, dot) == Cardinality({i \in 1..Len(vals) : vals[i] = dot})

RECURSIVE EqScan(_, _, _)
EqScan(from, in, i) ==
    IF i > Len(from) THEN "true"
    ELSE LET num_found == NumFound(in, from[i])
         IN  IF num_found = 0 THEN "false"
             ELSE IF num_found # 1 THEN "panic"
             ELSE EqScan(from, in, i + 1)

Eq(self, other) ==
    LET first == EqScan(self, other, 1)
    IN  IF first # "true" THEN first ELSE EqScan(other, self, 1)

RegEq(self, other) == Eq(self, other) = "true"

(* ---------------------------------------------------------------------- *)
(* LSeq: the entries (identifier, (dot, value)) and the global clock.     *)
(* Identifiers are the positions 1..MaxId between the two sentinels; the  *)
(* allocator and delete_id live in lseq.rs and are modelled from their    *)
(* description.                                                           *)
(* ---------------------------------------------------------------------- *)
Ids == 1..MaxId

Begin == 0

End == MaxId + 1

LNew == [siblings |-> {}, clock |-> VNew]

Insert(clock, value, p, q) ==
    [type |-> "insert", clock |-> clock, value |-> value, p |-> p, q |-> q]

Delete(id) == [type |-> "delete", id |-> id]

\* the dot an entry carries: the event of the clock's first actor
DotFromClock(clock) ==
    LET a == CHOOSE a \in Actors :
                 /\ clock[a] > 0
                 /\ \A b \in Actors : clock[b] > 0 => a <= b
    IN  [actor |-> a, counter |-> clock[a]]

\* the identifiers the allocator can pick for an insert between p and q
FreeIds(s, p, q) ==
    {id \in Ids : p < id /\ id < q /\ ~\E e \in s.siblings : e.id = id}

AllocId(s, p, q, clock, value, id) ==
    [siblings |-> s.siblings \cup {[id |-> id, dot |-> DotFromClock(clock), val |-> value]},
     clock    |-> VMerge(s.clock, clock)]

DeleteId(s, id) == [s EXCEPT !.siblings = {e \in s.siblings : e.id # id}]

LSeqApply(s, op, id) ==
    IF op.type = "insert"
    THEN IF VIsEmpty(op.clock) THEN s
         ELSE AllocId(s, op.p, op.q, op.clock, op.value, id)
    ELSE DeleteId(s, op.id)

LSeqNumFound(siblings, dot) == Cardinality({e \in siblings : e.dot = dot})

\* one loop of eq, over the entries of `from` in identifier order
RECURSIVE LSeqEqScan(_, _, _)
LSeqEqScan(from, in, id) ==
    IF id > MaxId THEN "true"
    ELSE IF ~\E e \in from.siblings : e.id = id THEN LSeqEqScan(from, in, id + 1)
    ELSE LET e == CHOOSE e \in from.siblings : e.id = id
             num_found == LSeqNumFound(in.siblings, e.dot)
         IN  IF num_found = 0 THEN "false"
             ELSE IF num_found # 1 THEN "panic"
             ELSE LSeqEqScan(from, in, id + 1)

LSeqEq(self, other) ==
    LET first == LSeqEqScan(self, other, 1)
    IN  IF first # "true" THEN first ELSE LSeqEqScan(other, self, 1)

(* ---------------------------------------------------------------------- *)
(* State                                                                  *)
(*   reg[r]   the register of replica r, which owns actor r               *)
(*   seen[r]  the ops replica r has applied, or received through a merge  *)
(*   net      the ops shipped so far; the host may deliver each of them   *)
(*            to any replica, any number of times, in any order           *)
(*   forgets  the number of truncations the host has asked for            *)
(*   t[x]     a generated TestReg: a register and the ops that built it   *)
(*   res      the outcome of the property run on the generated TestRegs   *)
(*   seq[x]   an LSeq replica                                             *)
(* ---------------------------------------------------------------------- *)
VARIABLES reg, seen, net, forgets, t, res, seq

vars == <<reg, seen, net, forgets, t, res, seq>>

NoRes == [prop |-> "none"]

Init ==
    /\ reg = [r \in Replicas |-> New]
    /\ seen = [r \in Replicas |-> {}]
    /\ net = {}
    /\ forgets = 0
    /\ t = [x \in TestRegs |-> [reg |-> New, ops |-> << >>]]
    /\ res = NoRes
    /\ seq = [x \in LSeqs |-> LNew]

(* ---------------------------------------------------------------------- *)
(* Replicas exchanging ops and states                                     *)
(* ---------------------------------------------------------------------- *)
\* the host reads, derives an add context for the replica's own actor,
\* builds the op with set, applies it locally and ships it.  Every replica
\* writes the same value: apply and merge never look at a value, and the
\* clocks alone tell the ops of replicas with distinct actors apart.
Write(r) ==
    /\ Cardinality(net) < MaxWrites
    /\ LET op == Set(Written, DeriveAddCtx(Read(reg[r]), r))
       IN  /\ reg' = [reg EXCEPT ![r] = Apply(reg[r], op)]
           /\ seen' = [seen EXCEPT ![r] = seen[r] \cup {op}]
           /\ net' = net \cup {op}
    /\ UNCHANGED <<forgets, t, res, seq>>

\* a shipped op reaches a replica (again, possibly)
Deliver(r, op) ==
    /\ op \in net
    /\ reg' = [reg EXCEPT ![r] = Apply(reg[r], op)]
    /\ seen' = [seen EXCEPT ![r] = seen[r] \cup {op}]
    /\ UNCHANGED <<net, forgets, t, res, seq>>

\* the host merges the full state of replica s into replica r
MergeFrom(r, s) ==
    /\ r # s
    /\ reg' = [reg EXCEPT ![r] = Merge(reg[r], reg[s])]
    /\ seen' = [seen EXCEPT ![r] = seen[r] \cup seen[s]]
    /\ UNCHANGED <<net, forgets, t, res, seq>>

Next ==
    \/ \E r \in Replicas : Write(r)
    \/ \E r \in Replicas, op \in net : Deliver(r, op)
    \/ \E r, s \in Replicas : MergeFrom(r, s)

Spec == Init /\ [][Next]_vars

(* ---------------------------------------------------------------------- *)
(* The same replicas, with causal truncation driven by the host           *)
(* ---------------------------------------------------------------------- *)
RECURSIVE JoinAll(_)
JoinAll(ops) ==
    IF ops = {} THEN VNew
    ELSE LET op == CHOOSE o \in ops : TRUE
         IN  VMerge(op.clock, JoinAll(ops \ {op}))

\* the clocks the host may hold as stable: the join of some shipped ops
StabilityClocks == {JoinAll(ops) : ops \in SUBSET net}

Forget(r, k) ==
    /\ forgets < MaxForgets
    /\ forgets' = forgets + 1
    /\ reg' = [reg EXCEPT ![r] = Truncate(reg[r], k)]
    /\ UNCHANGED <<seen, net, t, res, seq>>

NextCausal ==
    \/ \E r \in Replicas : Write(r)
    \/ \E r \in Replicas, op \in net : Deliver(r, op)
    \/ \E r, s \in Replicas : MergeFrom(r, s)
    \/ \E r \in Replicas, k \in StabilityClocks : Forget(r, k)

SpecCausal == Init /\ [][NextCausal]_vars

(* ---------------------------------------------------------------------- *)
(* The generator of the property tests (Arbitrary for TestReg) and the    *)
(* properties run on what it generates                                    *)
(* ---------------------------------------------------------------------- *)
NumOps == Len(t["r1"].ops) + Len(t["r2"].ops) + Len(t["r3"].ops)

\* one round of the generator's loop: an arbitrary value and actor, the op
\* derived from the register's own read, applied and recorded
Arbitrary(x, actor, val) ==
    /\ res = NoRes
    /\ NumOps < MaxOps
    /\ LET ctx == DeriveAddCtx(Read(t[x].reg), actor)
           op == Set(val, ctx)
       IN  t' = [t EXCEPT ![x] = [reg |-> Apply(t[x].reg, op),
                                  ops |-> Append(t[x].ops, op)]]
    /\ UNCHANGED <<reg, seen, net, forgets, res, seq>>

IncompatVals(a, b) ==
    \E i \in 1..Len(a), j \in 1..Len(b) :
        /\ a[i].clock = b[j].clock
        /\ a[i].val # b[j].val

Incompat(self, other) ==
    \/ IncompatVals(self.reg, other.reg)
    \/ \E i \in 1..Len(self.ops), j \in 1..Len(other.ops) :
          /\ self.ops[i].clock = other.ops[j].clock
          /\ self.ops[i].val # other.ops[j].val

PropMergeCommutative ==
    /\ res = NoRes
    /\ res' = [prop |-> "merge_commutative",
               r1 |-> Merge(t["r1"].reg, t["r2"].reg),
               r2 |-> Merge(t["r2"].reg, t["r1"].reg)]
    /\ UNCHANGED <<reg, seen, net, forgets, t, seq>>

PropMergeAssociative ==
    /\ res = NoRes
    /\ res' = [prop |-> "merge_associative",
               r1 |-> Merge(Merge(t["r1"].reg, t["r2"].reg), t["r3"].reg),
               r2 |-> Merge(Merge(t["r2"].reg, t["r3"].reg), t["r1"].reg)]
    /\ UNCHANGED <<reg, seen, net, forgets, t, seq>>

PropOpCommutative ==
    /\ res = NoRes
    /\ res' = [prop |-> "op_commutative",
               r1 |-> ApplyAll(t["r1"].reg, t["r2"].ops),
               r2 |-> ApplyAll(t["r2"].reg, t["r1"].ops)]
    /\ UNCHANGED <<reg, seen, net, forgets, t, seq>>

NextTest ==
    \/ \E x \in TestRegs, a \in Actors, v \in Vals : Arbitrary(x, a, v)
    \/ PropMergeCommutative
    \/ PropMergeAssociative
    \/ PropOpCommutative

SpecTest == Init /\ [][NextTest]_vars

(* ---------------------------------------------------------------------- *)
(* Two generated TestRegs and prop_op_commutative alone: the registers     *)
(* that come out of applying the ops of one history to the other register *)
(* ---------------------------------------------------------------------- *)
NextOps ==
    \/ \E x \in {"r1", "r2"}, a \in Actors, v \in Vals : Arbitrary(x, a, v)
    \/ PropOpCommutative

SpecOps == Init /\ [][NextOps]_vars

(* ---------------------------------------------------------------------- *)
(* Two LSeq replicas and a generated register, driven by a host that      *)
(* applies Insert and Delete ops, ops of empty clock included             *)
(* ---------------------------------------------------------------------- *)
\* the clocks of the Insert ops: the empty clock and the first event of
\* each of two writers
InsertClocks == {VNew, VInc(VNew, 1), VInc(VNew, 2)}

NumEntries == Cardinality(seq["s1"].siblings) + Cardinality(seq["s2"].siblings)

LSeqInsert(x, clock, value, p, q, id) ==
    /\ NumOps + NumEntries < MaxInserts
    /\ id \in FreeIds(seq[x], p, q)
    /\ seq' = [seq EXCEPT ![x] = LSeqApply(seq[x], Insert(clock, value, p, q), id)]
    /\ UNCHANGED <<reg, seen, net, forgets, t, res>>

LSeqDelete(x, id) ==
    /\ \E e \in seq[x].siblings : e.id = id
    /\ seq' = [seq EXCEPT ![x] = LSeqApply(seq[x], Delete(id), id)]
    /\ UNCHANGED <<reg, seen, net, forgets, t, res>>

NextLSeq ==
    \/ \E x \in LSeqs, clock \in InsertClocks, value \in Vals :
          \E p \in {Begin} \cup Ids, q \in Ids \cup {End}, id \in Ids :
              LSeqInsert(x, clock, value, p, q, id)
    \/ \E x \in LSeqs, id \in Ids : LSeqDelete(x, id)
    \/ \E a \in Actors, v \in Vals :
          NumOps + NumEntries < MaxInserts /\ Arbitrary("r1", a, v)

SpecLSeq == Init /\ [][NextLSeq]_vars

(* ---------------------------------------------------------------------- *)
(* Properties                                                             *)
(* ---------------------------------------------------------------------- *)
\* the orders in which the ops of a set can be taken
RECURSIVE Orders(_)
Orders(ops) ==
    IF ops = {} THEN {<< >>}
    ELSE UNION {{<<op>> \o rest : rest \in Orders(ops \ {op})} : op \in ops}

\* the register that has seen only this op
Singleton(op) == Apply(New, op)

RECURSIVE MergeLeft(_, _)
MergeLeft(acc, regs) ==
    IF regs = << >> THEN acc
    ELSE MergeLeft(Merge(acc, Head(regs)), Tail(regs))

MergeAllLeft(regs) == IF regs = << >> THEN New ELSE MergeLeft(Head(regs), Tail(regs))

ValCount(vals, v) == Cardinality({i \in 1..Len(vals) : vals[i].val = v})

SameValues(a, b) == \A v \in Vals : ValCount(a, v) = ValCount(b, v)

\* C1: two replicas that have applied the same set of ops, delivered in any
\* order and any number of times, hold equal registers and read the same
\* values.
C1_Convergence ==
    \A r, s \in Replicas :
        seen[r] = seen[s] =>
            /\ RegEq(reg[r], reg[s])
            /\ SameValues(reg[r], reg[s])

\* two replicas saw the same three ops, hold two entries, in different orders
C1_Witness ==
    \E r, s \in Replicas :
        /\ r # s
        /\ seen[r] = seen[s]
        /\ Cardinality(seen[r]) = 3
        /\ Len(reg[r]) = 2
        /\ reg[r] # reg[s]

\* C2: for compatible histories O1 and O2, applying O2 on the register built
\* from O1 equals applying O1 on the register built from O2.
C2_OpCommutative ==
    (res.prop = "op_commutative" /\ ~Incompat(t["r1"], t["r2"]))
        => RegEq(res.r1, res.r2)

\* both histories have two ops, a stale op was ignored and two concurrent
\* entries remain
C2_Witness ==
    /\ res.prop = "op_commutative"
    /\ Len(t["r1"].ops) = 2
    /\ Len(t["r2"].ops) = 2
    /\ t["r1"].ops[1] = t["r2"].ops[1]
    /\ Len(res.r1) = 2
    /\ res.r1 # res.r2

\* C3: re-applying an op a register has already applied leaves the register
\* equal to what it was (hence so does re-applying all of them in order).
C3_OpIdempotent ==
    \A r \in Replicas : \A op \in seen[r] :
        RegEq(Apply(reg[r], op), reg[r])

\* a replica holds two entries, and applying the op of the first one again
\* moves it behind the other
C3_Witness ==
    \E r \in Replicas :
        /\ Len(reg[r]) = 2
        /\ Put(reg[r][1].clock, reg[r][1].val) \in seen[r]
        /\ Apply(reg[r], Put(reg[r][1].clock, reg[r][1].val)) = <<reg[r][2], reg[r][1]>>

\* C4: for compatible registers r1 and r2, r1.merge(r2) equals r2.merge(r1).
C4_MergeCommutative ==
    (res.prop = "merge_commutative" /\ ~IncompatVals(t["r1"].reg, t["r2"].reg))
        => RegEq(res.r1, res.r2)

\* two concurrent registers were merged both ways: the entries come out in
\* different orders
C4_Witness ==
    /\ res.prop = "merge_commutative"
    /\ Len(res.r1) = 2
    /\ res.r1 # res.r2

\* C5: for pairwise compatible r1, r2, r3, (r1 merge r2) merge r3 equals
\* r1 merge (r2 merge r3).
PairwiseCompat ==
    /\ ~IncompatVals(t["r1"].reg, t["r2"].reg)
    /\ ~IncompatVals(t["r1"].reg, t["r3"].reg)
    /\ ~IncompatVals(t["r2"].reg, t["r3"].reg)

C5_MergeAssociative ==
    (res.prop = "merge_associative" /\ PairwiseCompat) => RegEq(res.r1, res.r2)

\* three pairwise concurrent registers were merged
C5_Witness ==
    /\ res.prop = "merge_associative"
    /\ Len(res.r1) = 3
    /\ res.r1 # res.r2

\* C7: a register built by applying ops one after another equals the merge
\* of the singleton registers of those ops, merged in any order.
C7_OpMergeEquivalence ==
    \A r \in Replicas : \A order \in Orders(seen[r]) :
        RegEq(reg[r], MergeAllLeft([i \in 1..Len(order) |-> Singleton(order[i])]))

\* a replica applied three ops, one of them superseded, and the merge of
\* the singletons in some order gives the two entries the other way round
C7_Witness ==
    \E r \in Replicas : \E order \in Orders(seen[r]) :
        /\ Cardinality(seen[r]) = 3
        /\ Len(reg[r]) = 2
        /\ MergeAllLeft([i \in 1..3 |-> Singleton(order[i])])
               = <<reg[r][2], reg[r][1]>>

\* C9: a write derived from the register's own read, for any actor, leaves
\* exactly one entry, and the next read returns [v].
C9_CausalOverwrite ==
    \A r \in Replicas, a \in Actors, v \in Vals :
        LET op == Set(v, DeriveAddCtx(Read(reg[r]), a))
            after == Apply(reg[r], op)
        IN  /\ Len(after) = 1
            /\ Read(after).val = <<v>>

\* a replica that had applied two concurrent ops wrote on top of them
C9_Witness ==
    \E r \in Replicas : \E o1, o2 \in seen[r] :
        /\ Cardinality(seen[r]) = 3
        /\ VConcurrent(o1.clock, o2.clock)
        /\ reg[r] = <<Entry(VInc(VMerge(o1.clock, o2.clock), r), Written)>>

\* C10: two concurrent Puts applied to a register, or two registers holding
\* one each merged, leave both entries, equal values included: read returns
\* both values and add_clock is the join of the two clocks.
BothKept(vals, o1, o2) ==
    /\ vals = <<Entry(o1.clock, o1.val), Entry(o2.clock, o2.val)>>
    /\ Read(vals).val = <<o1.val, o2.val>>
    /\ Read(vals).add_clock = VMerge(o1.clock, o2.clock)

OpsOf(x) == {t[x].ops[i] : i \in 1..Len(t[x].ops)}

C10_ConcurrentRetained ==
    \A o1 \in OpsOf("r1"), o2 \in OpsOf("r2") :
        (res = NoRes /\ VConcurrent(o1.clock, o2.clock)) =>
            /\ BothKept(Apply(Singleton(o1), o2), o1, o2)
            /\ BothKept(Merge(Singleton(o1), Singleton(o2)), o1, o2)

\* two registers written concurrently with the same value were merged, and
\* the merged register reads the value twice
C10_Witness ==
    /\ res.prop = "merge_commutative"
    /\ Len(t["r1"].ops) = 1
    /\ Len(t["r2"].ops) = 1
    /\ VConcurrent(t["r1"].ops[1].clock, t["r2"].ops[1].clock)
    /\ Read(res.r1).val = <<23, 23>>
    /\ Read(res.r1).add_clock = VMerge(t["r1"].ops[1].clock, t["r2"].ops[1].clock)

\* C6: merging a copy of a register into itself leaves it equal to itself,
\* in every state reached through apply, merge and forget.
C6_MergeIdempotent ==
    \A r \in Replicas : RegEq(Merge(reg[r], reg[r]), reg[r])

\* C8: no two entries of a register have comparable clocks, in every state
\* reached through apply, merge and forget.
C8_IncomparableClocks ==
    \A r \in Replicas : \A i, j \in 1..Len(reg[r]) :
        i # j => VConcurrent(reg[r][i].clock, reg[r][j].clock)

\* the registers a property has built: by applying the ops of one history
\* to the register of another, or by merging registers
Built == IF res = NoRes THEN {} ELSE {res.r1, res.r2}

\* the ops of the two histories the properties run on
Ops == OpsOf("r1") \cup OpsOf("r2")

\* the clocks a host can have learnt from the histories: the joins of ops
HistoryClocks == {JoinAll(ops) : ops \in SUBSET Ops}

\* C11: truncate with the empty clock leaves a register equal to itself, and
\* truncate with the join of its entry clocks leaves the empty register.
C11_TruncateBounds ==
    \A r \in Built :
        /\ RegEq(Truncate(r, VNew), r)
        /\ RegEq(Truncate(r, Clock(r)), New)

\* a register of two concurrent entries is truncated both ways
C11_Witness ==
    \E r \in Built :
        /\ Len(r) = 2
        /\ Truncate(r, VNew) = r
        /\ VConcurrent(r[1].clock, r[2].clock)
        /\ Truncate(r, VMerge(r[1].clock, r[2].clock)) = New

\* the entries of a register that a clock does not cover
Uncovered(r, K) == SelectSeq(r, LAMBDA e : ~VLeq(e.clock, K))

\* C12: truncate(K) removes an entry if and only if its clock is <= K; the
\* other entries keep their place and value, so that read returns exactly
\* the values of the entries K does not cover, in their previous order.
C12_TruncateSafety ==
    \A r \in Built : \A K \in HistoryClocks :
        LET after == Truncate(r, K)
            kept == Uncovered(r, K)
        IN  /\ Len(after) = Len(kept)
            /\ \A i \in 1..Len(kept) : after[i].val = kept[i].val
            /\ Read(after).val = [i \in 1..Len(kept) |-> kept[i].val]

\* of two entries, a clock covers the first one and a part of the second
C12_Witness ==
    \E r \in Built : \E K \in HistoryClocks :
        /\ Len(r) = 2
        /\ VLeq(r[1].clock, K)
        /\ ~VLeq(r[2].clock, K)
        /\ VSubtract(r[2].clock, K) # r[2].clock
        /\ Read(Truncate(r, K)).val = <<r[2].val>>

\* C13: an entry that K does not fully cover is the same after truncate(K)
\* as before, with the same clock and the same value.
C13_UncoveredUnchanged ==
    \A r \in Built : \A K \in HistoryClocks :
        LET after == Truncate(r, K)
        IN  \A i \in 1..Len(r) :
                ~VLeq(r[i].clock, K) => \E j \in 1..Len(after) : after[j] = r[i]

Holds(r, c, v) == \E i \in 1..Len(r) : r[i] = Entry(c, v)

Dominated(r, c) == \E i \in 1..Len(r) : VGt(r[i].clock, c)

\* C14: when self holds (c, v1) and other holds (c, v2) with v1 # v2, and no
\* entry of either side strictly dominates c, self.merge(other) holds both
\* (c, v1) and (c, v2).
C14_MergeKeepsEqualClocks ==
    res.prop = "merge_commutative" =>
        LET self == t["r1"].reg
            other == t["r2"].reg
        IN  \A i \in 1..Len(self), j \in 1..Len(other) :
                (/\ self[i].clock = other[j].clock
                 /\ self[i].val # other[j].val
                 /\ ~Dominated(self, self[i].clock)
                 /\ ~Dominated(other, self[i].clock))
                    => /\ Holds(res.r1, self[i].clock, self[i].val)
                       /\ Holds(res.r1, other[j].clock, other[j].val)

\* the least clock that is above the clock of every entry
IsJoin(c, r) ==
    \A a \in Actors :
        /\ \A i \in 1..Len(r) : r[i].clock[a] <= c[a]
        /\ c[a] = 0 \/ \E i \in 1..Len(r) : r[i].clock[a] = c[a]

C17_MalformedPutAccepted ==
    \A r \in Built : \A i \in 1..Len(r) : \A v2 \in Vals \ {r[i].val} :
        LET after == Apply(r, Put(r[i].clock, v2))
        IN  /\ Holds(after, r[i].clock, r[i].val)
            /\ Holds(after, r[i].clock, v2)

\* C18: applying a Put whose clock some stored entry strictly dominates
\* leaves the register as it was.
C18_StalePutIgnored ==
    \A r \in Built : \A o \in Ops : \A v \in Vals :
        Dominated(r, o.clock) => Apply(r, Put(o.clock, v)) = r

\* a register of two entries, the first of which dominates an op of the
\* histories: applying the op changes nothing
C18_Witness ==
    \E r \in Built : \E o \in Ops :
        /\ Len(r) = 2
        /\ VGt(r[1].clock, o.clock)
        /\ ~VGt(r[2].clock, o.clock)
        /\ Apply(r, o) = r

\* C19: the join of the entry clocks of a replica after an apply or a merge
\* is >= the join before it.
C19_ClockMonotone ==
    [][\A r \in Replicas : VLeq(Clock(reg[r]), Clock(reg'[r]))]_vars

\* a replica has seen an op that its register no longer holds, and the
\* clock of its register is the join of all it has seen
C19_Witness ==
    \E r \in Replicas :
        /\ Cardinality(seen[r]) = 3
        /\ \E o \in seen[r] : ~\E i \in 1..Len(reg[r]) : reg[r][i].clock = o.clock
        /\ Len(reg[r]) = 2
        /\ Clock(reg[r]) = JoinAll(seen[r])

\* C15: an MVReg Put of empty clock, and an LSeq Insert of empty clock,
\* leave the state they are applied to as it was: no entry removed or
\* added, no identifier allocated, the clock untouched.
C15_EmptyClockNoOp ==
    \A v \in Vals :
        /\ Apply(t["r1"].reg, Put(VNew, v)) = t["r1"].reg
        /\ \A x \in LSeqs : \A p \in {Begin} \cup Ids, q \in Ids \cup {End}, id \in Ids :
               LSeqApply(seq[x], Insert(VNew, v, p, q), id) = seq[x]

\* a register that holds an entry and an LSeq that holds one, with a free
\* identifier behind it: the ops of empty clock change neither
C15_Witness ==
    /\ Len(t["r1"].reg) = 1
    /\ Cardinality(seq["s1"].siblings) = 1
    /\ 2 \in FreeIds(seq["s1"], Begin, End)
    /\ Apply(t["r1"].reg, Put(VNew, 82)) = t["r1"].reg
    /\ LSeqApply(seq["s1"], Insert(VNew, 82, Begin, End), 2) = seq["s1"]

\* C20: two LSeq states compare equal exactly when they hold the same
\* identifiers with the same entry (dot and value) under each of them.
C20_LSeqEqStructural ==
    (LSeqEq(seq["s1"], seq["s2"]) = "true")
        <=> (seq["s1"].siblings = seq["s2"].siblings)

\* C21: comparing registers reached through apply, merge and truncate never
\* trips the sanity assertion of eq: no such register holds the same
\* (clock, value) entry twice.
C21_EqNeverPanics ==
    \A r \in Built : \A K \in HistoryClocks :
        LET after == Truncate(r, K)
        IN  /\ Eq(after, after) # "panic"
            /\ \A i, j \in 1..Len(after) : i # j => after[i] # after[j]

====
